---- MODULE Spec2Model ----
(***************************************************************************)
(* Model of remove-dead-domains.py: the DNS phase (one dns_resolve_domain  *)
(* task per line of the list file, each calling dns_resolve once per DNS   *)
(* server group), the TCP phase (one has_tcp_port_open probe per candidate *)
(* and web port) and the main flow that classifies the domains and         *)
(* rewrites the list file.                                                 *)
(*                                                                         *)
(* The asyncio tasks interleave at their suspension points; the model      *)
(* lets them interleave at every step below, which includes the real       *)
(* schedules.  Timeouts are counted in hundredths of a second.             *)
(*                                                                         *)
(* Scaled configuration: the source sets 5 server groups, 10 permits per   *)
(* gate and 10 attempts per resolution; the model keeps the shapes and     *)
(* uses NumGroups, MAX_CONCURRENT_REQUESTS_PER_DNS_SERVER and              *)
(* MAX_DNS_ATTEMPTS as set below so that gates fill up and retries run     *)
(* out within a checkable state space.                                     *)
(***************************************************************************)
EXTENDS Integers, Sequences, FiniteSets, TLC

\* ---------------------------------------------------------------- bounds

\* number of lines of the list file
NumLines == 2
\* largest number of A records in one DNS response
MaxRecords == 2
\* the number of runs of the script on the same list
MaxRuns == 2

\* ----------------------------------------------------- program constants

\* len(DNS_SERVERS): 5 in the source
NumGroups == 2
\* 10 in the source
MAX_CONCURRENT_REQUESTS_PER_DNS_SERVER == 1
\* 10 in the source
MAX_DNS_ATTEMPTS == 2
BASE_DNS_TIMEOUT_S == 3
\* random.randint(-20, 20) / 100: the largest jitter, in hundredths of a second
JITTER_MAX == 20

Groups == 1..NumGroups
\* each group is a pair of server addresses; address 2g-1 and 2g belong to group g
DNS_SERVERS == [g \in Groups |-> <<2 * g - 1, 2 * g>>]
Addresses == 1..(2 * NumGroups)
WEB_PORTS == <<80, 443>>

\* ------------------------------------------------------------ the inputs

\* the lines of the list file (without their newline); "b " has trailing whitespace
Lines == {"a", "b "}
\* str.rstrip on a line
rstrip(line) == IF line = "b " THEN "b" ELSE line

None == "None"
IPs == {"ip1", "ip2"}
\* the hosts of the A records of a response, in order; the records of one answer
\* are distinct
Responses ==
  {s \in UNION {[1..n -> IPs] : n \in 0..MaxRecords} :
     \A i, j \in DOMAIN s : s[i] = s[j] => i = j}
\* the jitters drawn by random.randint(-20, 20) that the model samples: the two ends
Jitters == {-JITTER_MAX, JITTER_MAX}
\* how a TCP connection attempt can end
TcpOutcomes == {"connected", "refused", "timeout", "unreachable", "oserror"}

VARIABLES
  original,              \* the content of the list file when the run started
  list_file,             \* the content of the list file: a sequence of lines
  domains,               \* tuple(map(str.rstrip, readlines()))
  dead_domains,          \* set of domains
  main,                  \* position of the main flow
  sems,                  \* permits left in the gate of each server address
  pc,                    \* per task: position in dns_resolve_domain / dns_resolve
  dns_servers,           \* per task: the shuffled list of groups
  r,                     \* per task: the resolution vector built so far
  addr,                  \* per task: dns_server_ip of the running dns_resolve
  attempt,               \* per task: loop variable of dns_resolve
  timeout,               \* per task: timeout of dns_resolve, in 1/100 s
  queries,               \* per task: queries issued by the running dns_resolve
  last,                  \* per task: what wait_for gave in the last settled attempt
  ip,                    \* per task: value returned by the last dns_resolve
  tcp_check_domain_ips,  \* dict domain -> resolution vector
  tcp_check_futures,     \* dict domain -> list of probes
  removed_count,         \* the count printed at the end
  mocked,                \* whether the network layer is a deterministic one
  dns_net,               \* mocked network: the answer of each server address for each domain
  tcp_net,               \* mocked network: how a connection to each address and port ends
  previous_dead          \* the dead sets of the earlier runs on the same list

vars == <<original, list_file, domains, dead_domains, main, sems, pc, dns_servers, r, addr,
          attempt, timeout, queries, last, ip, tcp_check_domain_ips,
          tcp_check_futures, removed_count, mocked, dns_net, tcp_net, previous_dead>>

taskVars == <<pc, dns_servers, r, addr, attempt, timeout, queries, last, ip, dns_net>>
mainVars == <<original, list_file, domains, dead_domains, main, tcp_check_domain_ips,
              tcp_check_futures, removed_count, mocked, tcp_net, previous_dead>>

Tasks == 1..Len(domains)
NoAddr == 0
Shuffles == {s \in [Groups -> Groups] : \A i, j \in Groups : s[i] = s[j] => i = j}
Identity == [g \in Groups |-> g]
\* what wait_for gave in the last settled attempt: a response, a timeout, an error
NoOutcome == [kind |-> "none", hosts |-> <<>>]
\* the domains a line of the list can name
DomainNames == {rstrip(line) : line \in Lines}
\* a connection the mocked network has not been asked for yet
Unasked == "unasked"
\* the answers the name servers of the mocked network are set up with
MockDnsAnswers ==
  {[kind |-> "timeout", hosts |-> <<>>], [kind |-> "error", hosts |-> <<>>]} \cup
  {[kind |-> "response", hosts |-> h] : h \in {<<"ip1">>, <<"ip2">>, <<"ip1", "ip2">>}}
\* the ways a connection attempt ends in the mocked network
MockTcpOutcomes == {"connected", "refused", "oserror"}

\* ------------------------------------------------------------------ Init

\* lines 96-99, 108-117: the list is read, nothing is dead, every gate is full
\* (a gate the defaultdict has not created yet behaves as a full one) and one
\* task per line is scheduled
InitOf(file) ==
  /\ original = file
  /\ list_file = file
  /\ domains = [i \in 1..Len(file) |-> rstrip(file[i])]
  /\ dead_domains = {}
  /\ main = "dns"
  /\ sems = [a \in Addresses |-> MAX_CONCURRENT_REQUESTS_PER_DNS_SERVER]
  /\ pc = [t \in 1..Len(file) |-> "start"]
  /\ dns_servers = [t \in 1..Len(file) |-> Identity]
  /\ r = [t \in 1..Len(file) |-> <<>>]
  /\ addr = [t \in 1..Len(file) |-> NoAddr]
  /\ attempt = [t \in 1..Len(file) |-> 0]
  /\ timeout = [t \in 1..Len(file) |-> 0]
  /\ queries = [t \in 1..Len(file) |-> 0]
  /\ last = [t \in 1..Len(file) |-> NoOutcome]
  /\ ip = [t \in 1..Len(file) |-> None]
  /\ tcp_check_domain_ips = <<>>
  /\ tcp_check_futures = <<>>
  /\ removed_count = -1
  /\ dns_net = [d \in DomainNames |-> [a \in Addresses |-> NoOutcome]]
  /\ tcp_net = [i \in IPs |-> [k \in DOMAIN WEB_PORTS |-> Unasked]]
  /\ previous_dead = <<>>

\* the run against the real network
Init == \E file \in [1..NumLines -> Lines] : InitOf(file) /\ mocked = FALSE

\* --------------------------------------------------- dns_resolve_domain

\* lines 60-62: list(DNS_SERVERS), random.shuffle, r = []
Shuffle(t) ==
  /\ main = "dns" /\ pc[t] = "start"
  /\ \E s \in Shuffles : dns_servers' = [dns_servers EXCEPT ![t] = s]
  /\ pc' = [pc EXCEPT ![t] = "pick"]
  /\ UNCHANGED <<r, addr, attempt, timeout, queries, last, ip, sems, dns_net>>
  /\ UNCHANGED mainVars

\* NextGroup iterating over DNS_SERVERS instead of the shuffled copy
NextGroupUnshuffled(t) == Len(r[t]) + 1

\* line 63: for name_servers in dns_servers; r holds one entry per group done
NextGroup(t) == dns_servers[t][Len(r[t]) + 1]

\* lines 63-65 and 32-34: the next group of the shuffled list, one of its two
\* addresses, and the start of dns_resolve: timeout = BASE_DNS_TIMEOUT_S, attempt 1
PickServer(t) ==
  /\ main = "dns" /\ pc[t] = "pick"
  /\ \E k \in 1..2 :
       addr' = [addr EXCEPT ![t] = DNS_SERVERS[NextGroup(t)][k]]
  /\ attempt' = [attempt EXCEPT ![t] = 1]
  /\ timeout' = [timeout EXCEPT ![t] = BASE_DNS_TIMEOUT_S * 100]
  /\ queries' = [queries EXCEPT ![t] = 0]
  /\ last' = [last EXCEPT ![t] = NoOutcome]
  /\ pc' = [pc EXCEPT ![t] = "query"]
  /\ UNCHANGED <<dns_servers, r, ip, sems, dns_net>>
  /\ UNCHANGED mainVars

\* ------------------------------------------------------------ dns_resolve

\* line 35: resolver.query(domain, "A") hands the query to the resolver, which
\* sends it; the call returns the future of its answer
Query(t) ==
  /\ main = "dns" /\ pc[t] = "query"
  /\ queries' = [queries EXCEPT ![t] = @ + 1]
  /\ pc' = [pc EXCEPT ![t] = "acquire"]
  /\ UNCHANGED <<dns_servers, r, addr, attempt, timeout, last, ip, sems, dns_net>>
  /\ UNCHANGED mainVars

\* line 37: async with sem, entered when the gate of the address has a permit
Acquire(t) ==
  /\ main = "dns" /\ pc[t] = "acquire"
  /\ sems[addr[t]] > 0
  /\ sems' = [sems EXCEPT ![addr[t]] = @ - 1]
  /\ pc' = [pc EXCEPT ![t] = "wait"]
  /\ UNCHANGED <<dns_servers, r, addr, attempt, timeout, queries, last, ip, dns_net>>
  /\ UNCHANGED mainVars

\* Release keeping the permit: the gate is acquired but never given back
ReleaseNothing(a) == sems

\* line 37, leaving the async with block
Release(a) == [sems EXCEPT ![a] = @ + 1]

\* FirstHost with response[-1] in place of response[0]
LastHost(response) == IF Len(response) = 0 THEN None ELSE response[Len(response)]

\* lines 45-49: response[0].host, or None on IndexError
FirstHost(response) == IF Len(response) = 0 THEN None ELSE response[1]

\* HasNextAttempt with range(1, MAX_DNS_ATTEMPTS) in place of range(1, MAX_DNS_ATTEMPTS + 1)
HasNextAttemptShort(n) == n + 1 < MAX_DNS_ATTEMPTS

\* line 34: whether the for loop has another attempt after this one
HasNextAttempt(n) == n < MAX_DNS_ATTEMPTS

\* Continues with aiodns.error.DNSError caught by the same clause as the timeout
ContinuesOnError(kind, n) == kind \in {"timeout", "error"} /\ n < MAX_DNS_ATTEMPTS

\* lines 39-44: only asyncio.TimeoutError reaches the continue
Continues(kind, n) == kind = "timeout" /\ HasNextAttempt(n)

\* NextTimeout with the jitter of line 40 not divided by 100
NextTimeoutUnscaled(old, jitter) == BASE_DNS_TIMEOUT_S * 100 + jitter * 100

\* NextTimeout with the jitter added to the timeout of the attempt before
NextTimeoutAccumulated(old, jitter) == old + jitter

\* lines 40-41: the timeout of the attempt after a timed-out one
NextTimeout(old, jitter) == BASE_DNS_TIMEOUT_S * 100 + jitter

\* lines 35, 38: a deterministic network answers a domain the same way each
\* time the same server address is asked
DnsAllowed(d, a, how) ==
  mocked => how \in MockDnsAnswers /\ dns_net[d][a] \in {NoOutcome, how}

\* lines 36-53: the attempt of task t ends, wait_for having given `how`; the gate
\* is left, then either the loop continues with timeout `next` or dns_resolve
\* returns `value` and its locals are gone
Settle(t, how, value, next) ==
  /\ DnsAllowed(domains[t], addr[t], how)
  /\ dns_net' = IF mocked THEN [dns_net EXCEPT ![domains[t]][addr[t]] = how] ELSE dns_net
  /\ sems' = Release(addr[t])
  /\ last' = [last EXCEPT ![t] = how]
  /\ IF Continues(how.kind, attempt[t])
       THEN /\ attempt' = [attempt EXCEPT ![t] = @ + 1]
            /\ timeout' = [timeout EXCEPT ![t] = next]
            /\ pc' = [pc EXCEPT ![t] = "query"]
            /\ UNCHANGED ip
       ELSE /\ ip' = [ip EXCEPT ![t] = value]
            /\ attempt' = [attempt EXCEPT ![t] = 0]
            /\ timeout' = [timeout EXCEPT ![t] = 0]
            /\ pc' = [pc EXCEPT ![t] = "ret"]
  /\ UNCHANGED <<dns_servers, r, addr, queries>>
  /\ UNCHANGED mainVars

\* lines 38, 45-49, 53: the query is answered within the timeout
Answered(t) ==
  /\ main = "dns" /\ pc[t] = "wait"
  /\ \E response \in Responses :
       Settle(t, [kind |-> "response", hosts |-> response], FirstHost(response),
              timeout[t])

\* lines 39-42 and 50-52: asyncio.TimeoutError
TimedOut(t) ==
  /\ main = "dns" /\ pc[t] = "wait"
  /\ \E jitter \in Jitters :
       Settle(t, [kind |-> "timeout", hosts |-> <<>>], None,
              NextTimeout(timeout[t], jitter))

\* lines 43-44: aiodns.error.DNSError
DnsError(t) ==
  /\ main = "dns" /\ pc[t] = "wait"
  /\ Settle(t, [kind |-> "error", hosts |-> <<>>], None, timeout[t])

\* lines 65-68: r.append(ip); after the last group the task returns r
AppendResult(t) ==
  /\ main = "dns" /\ pc[t] = "ret"
  /\ r' = [r EXCEPT ![t] = Append(@, ip[t])]
  /\ pc' = [pc EXCEPT ![t] = IF Len(r[t]) + 1 = NumGroups THEN "done" ELSE "pick"]
  /\ dns_servers' = [dns_servers EXCEPT ![t] =
                       IF Len(r[t]) + 1 = NumGroups THEN Identity ELSE @]
  /\ addr' = [addr EXCEPT ![t] = NoAddr]
  /\ queries' = [queries EXCEPT ![t] = 0]
  /\ last' = [last EXCEPT ![t] = NoOutcome]
  /\ ip' = [ip EXCEPT ![t] = None]
  /\ UNCHANGED <<attempt, timeout, sems, dns_net>>
  /\ UNCHANGED mainVars

\* ------------------------------------------------- main flow, DNS phase

\* any(ips) and all(ips): None is the only falsy entry
AnyOf(ips) == \E i \in DOMAIN ips : ips[i] # None
AllOf(ips) == \A i \in DOMAIN ips : ips[i] # None

\* DnsClass with the two tests in the other order: not all(ips) first
DnsClassAllFirst(ips) ==
  IF ~AllOf(ips) THEN "dead" ELSE IF ~AnyOf(ips) THEN "tcp" ELSE "alive"

\* DnsClass without its elif branch
DnsClassNoTcp(ips) == IF ~AnyOf(ips) THEN "dead" ELSE "alive"

\* lines 123-128: what the main flow does with one resolution vector
DnsClass(ips) ==
  IF ~AnyOf(ips) THEN "dead" ELSE IF ~AllOf(ips) THEN "tcp" ELSE "alive"

\* DnsGathered returning with the first task that ends
DnsGatheredFirst == \E t \in Tasks : pc[t] = "done"

\* line 119: run_until_complete(gather(*dns_check_futures)) has returned
DnsGathered == \A t \in Tasks : pc[t] = "done"

\* lines 121-128: the loop over zip(domains, dns_check_futures); a later entry of
\* the same domain overwrites tcp_check_domain_ips[domain]
ClassifyDns ==
  /\ main = "dns" /\ DnsGathered
  /\ dead_domains' =
       dead_domains \cup {domains[t] : t \in {u \in Tasks : DnsClass(r[u]) = "dead"}}
  /\ LET mixed == {t \in Tasks : DnsClass(r[t]) = "tcp"}
         lastOf(d) == CHOOSE t \in mixed :
                        /\ domains[t] = d
                        /\ \A u \in mixed : domains[u] = d => u <= t
     IN tcp_check_domain_ips' = [d \in {domains[t] : t \in mixed} |-> r[lastOf(d)]]
  /\ main' = "launch"
  /\ UNCHANGED <<mocked, previous_dead, tcp_net, original, list_file, domains, tcp_check_futures, removed_count, sems>>
  /\ UNCHANGED taskVars

\* ------------------------------------------------- main flow, TCP phase

\* FirstResolved with ips[0] in place of next(filter(None, ips))
FirstEntry(ips) == ips[1]

\* line 140: next(filter(None, ips))
FirstResolved(ips) ==
  ips[CHOOSE i \in DOMAIN ips : ips[i] # None /\ \A j \in DOMAIN ips : ips[j] # None => i <= j]

\* lines 131-144: one has_tcp_port_open task per candidate and web port
LaunchTcp ==
  /\ main = "launch"
  /\ tcp_check_futures' =
       [d \in DOMAIN tcp_check_domain_ips |->
          [k \in DOMAIN WEB_PORTS |->
             [ip |-> FirstResolved(tcp_check_domain_ips[d]), port |-> WEB_PORTS[k],
              state |-> "pending", outcome |-> "pending", result |-> FALSE,
              closed |-> FALSE]]]
  /\ main' = "tcp"
  /\ UNCHANGED <<mocked, previous_dead, tcp_net, original, list_file, domains, dead_domains, tcp_check_domain_ips, removed_count, sems>>
  /\ UNCHANGED taskVars

\* Raises with a bare "except OSError: r = False"
RaisesNever(outcome) == FALSE

\* lines 77-83: the connection errors has_tcp_port_open does not catch
Raises(outcome) == outcome = "oserror"

\* lines 73-87: the value has_tcp_port_open returns
PortOpen(outcome) == outcome = "connected"

\* lines 84-85: writer.close() in the else clause of the try
Closes(outcome) == outcome = "connected"

\* lines 75-76: a deterministic network ends a connection attempt the same way
\* each time the same address and port are tried
TcpAllowed(i, k, outcome) ==
  mocked => outcome \in MockTcpOutcomes /\ tcp_net[i][k] \in {Unasked, outcome}

\* lines 71-87: one probe ends; `outcome` is how the connection attempt ended,
\* `closed` whether the probe closed the connection it opened
has_tcp_port_open(d, k) ==
  /\ main = "tcp"
  /\ tcp_check_futures[d][k].state = "pending"
  /\ \E outcome \in TcpOutcomes :
       /\ TcpAllowed(tcp_check_futures[d][k].ip, k, outcome)
       /\ tcp_net' = IF mocked
                       THEN [tcp_net EXCEPT ![tcp_check_futures[d][k].ip][k] = outcome]
                       ELSE tcp_net
       /\ tcp_check_futures' =
            [tcp_check_futures EXCEPT ![d][k] =
               IF Raises(outcome)
                 THEN [@ EXCEPT !.state = "raised", !.outcome = outcome]
                 ELSE [@ EXCEPT !.state = "done", !.outcome = outcome,
                                !.result = PortOpen(outcome), !.closed = Closes(outcome)]]
  /\ UNCHANGED <<mocked, previous_dead, original, list_file, domains, dead_domains, main, tcp_check_domain_ips, removed_count, sems>>
  /\ UNCHANGED taskVars

Probes == {<<d, k>> : d \in DOMAIN tcp_check_futures, k \in DOMAIN WEB_PORTS}

\* TcpGathered returning as soon as one probe has returned
TcpGatheredAny ==
  Probes = {} \/ \E p \in Probes : tcp_check_futures[p[1]][p[2]].state = "done"

\* lines 146-148: gather returns once every probe has returned
TcpGathered == \A p \in Probes : tcp_check_futures[p[1]][p[2]].state = "done"

\* lines 146-148: gather raises the first exception of a probe
TcpRaised == \E p \in Probes : tcp_check_futures[p[1]][p[2]].state = "raised"

\* NoPortOpen with not all(status) in place of not any(status)
SomePortClosed(futures) == \E k \in DOMAIN futures : ~futures[k].result

\* lines 151-152: not any(status), status being the results of the probes
NoPortOpen(futures) == ~ \E k \in DOMAIN futures : futures[k].result

\* lines 150-154: a candidate none of whose probes returned True is dead
ClassifyTcp ==
  /\ main = "tcp" /\ TcpGathered
  /\ dead_domains' =
       dead_domains \cup
         {d \in DOMAIN tcp_check_futures : NoPortOpen(tcp_check_futures[d])}
  /\ main' = "write"
  /\ UNCHANGED <<mocked, previous_dead, tcp_net, original, list_file, domains, tcp_check_domain_ips, tcp_check_futures, removed_count, sems>>
  /\ UNCHANGED taskVars

\* AfterRaise with the exception swallowed: the main flow goes on to the rewrite
AfterRaiseSwallowed == "write"

\* what the main flow does when run_until_complete raises: nothing catches the
\* exception and the program ends
AfterRaise == "aborted"

\* lines 146-148: the exception of a probe leaves run_until_complete
Abort ==
  /\ main = "tcp" /\ TcpRaised
  /\ main' = AfterRaise
  /\ UNCHANGED <<mocked, previous_dead, tcp_net, original, list_file, domains, dead_domains, tcp_check_domain_ips, tcp_check_futures,
                 removed_count, sems>>
  /\ UNCHANGED taskVars

\* Survives with the test of line 159 inverted
SurvivesDead(domain) == domain \in dead_domains

\* line 159: if domain not in dead_domains
Survives(domain) == domain \notin dead_domains

\* ReportedCount giving the number of domains kept
ReportedCountKept(dead) == Len(domains) - Cardinality(dead)

\* line 161: len(dead_domains)
ReportedCount(dead) == Cardinality(dead)

\* lines 156-161: the file is rewritten with the domains that are not dead, and
\* the number of dead domains is printed
WriteNewFile ==
  /\ main = "write"
  /\ list_file' = SelectSeq(domains, Survives)
  /\ removed_count' = ReportedCount(dead_domains)
  /\ main' = "done"
  /\ UNCHANGED <<mocked, previous_dead, tcp_net, original, domains, dead_domains, tcp_check_domain_ips, tcp_check_futures, sems>>
  /\ UNCHANGED taskVars

Next ==
  \/ \E t \in Tasks : Shuffle(t)
  \/ \E t \in Tasks : PickServer(t)
  \/ \E t \in Tasks : Query(t)
  \/ \E t \in Tasks : Acquire(t)
  \/ \E t \in Tasks : Answered(t)
  \/ \E t \in Tasks : TimedOut(t)
  \/ \E t \in Tasks : DnsError(t)
  \/ \E t \in Tasks : AppendResult(t)
  \/ ClassifyDns
  \/ LaunchTcp
  \/ \E d \in DOMAIN tcp_check_futures : \E k \in DOMAIN WEB_PORTS : has_tcp_port_open(d, k)
  \/ ClassifyTcp
  \/ Abort
  \/ WriteNewFile

Spec == Init /\ [][Next]_vars

\* the run on a list of one line: a single DNS task, hence each dns_resolve alone
InitOne == \E line \in Lines : InitOf(<<line>>) /\ mocked = FALSE
SpecOne == InitOne /\ [][Next]_vars

\* the run under the event loop: as long as a task or the main flow can take a
\* step, one is taken (run_until_complete keeps running what is runnable, and
\* every query issued settles or times out)
LiveSpec == Init /\ [][Next]_vars /\ WF_vars(Next)

\* lines 90-161 once more: the script is run again on the list it was given the
\* first time, against the same deterministic network
Rerun ==
  /\ mocked /\ main = "done" /\ Len(previous_dead) + 1 < MaxRuns
  /\ previous_dead' = Append(previous_dead, dead_domains)
  /\ list_file' = original
  /\ dead_domains' = {}
  /\ main' = "dns"
  /\ pc' = [t \in Tasks |-> "start"]
  /\ r' = [t \in Tasks |-> <<>>]
  /\ tcp_check_domain_ips' = <<>>
  /\ tcp_check_futures' = <<>>
  /\ removed_count' = -1
  /\ UNCHANGED <<original, domains, sems, dns_servers, addr, attempt, timeout, queries, last, ip,
                 mocked, dns_net, tcp_net>>

\* runs of the script on a list of one line against a deterministic network
InitTwice == \E line \in Lines : InitOf(<<line>>) /\ mocked = TRUE
NextTwice == Next \/ Rerun
SpecTwice == InitTwice /\ [][NextTwice]_vars

\* ---------------------------------------------------------------- claims

\* task t has issued a query (line 35) that has not settled (line 38)
Unsettled(t) == pc[t] \in {"acquire", "wait"}
\* task t is inside the async with block of line 37
HoldsGate(t) == pc[t] = "wait"
InFlight(a) == Cardinality({t \in Tasks : Unsettled(t) /\ addr[t] = a})
Holders(a) == Cardinality({t \in Tasks : HoldsGate(t) /\ addr[t] = a})

Unresolved(ips) == \A i \in DOMAIN ips : ips[i] = None
Resolved(ips) == \A i \in DOMAIN ips : ips[i] # None
Mixed(ips) == ~Unresolved(ips) /\ ~Resolved(ips)
\* the domain of entry t occurs once in the list
Once(t) == \A u \in Tasks : domains[u] = domains[t] => u = t
AllOnce == \A t \in Tasks : Once(t)
InputDomains == {domains[t] : t \in Tasks}
Candidates == DOMAIN tcp_check_domain_ips
Probed == DOMAIN tcp_check_futures
FatalSeen ==
  \E d \in Probed : \E k \in DOMAIN tcp_check_futures[d] :
    tcp_check_futures[d][k].state = "raised"

\* C1: for every server address, the number of queries issued to it and not yet
\* settled is at most MAX_CONCURRENT_REQUESTS_PER_DNS_SERVER.
C1_InFlightBounded ==
  \A a \in Addresses : InFlight(a) <= MAX_CONCURRENT_REQUESTS_PER_DNS_SERVER

\* C2: an attempt acquires the gate, then issues its query, then releases the gate
\* when the query settles: a task with an unsettled query holds the gate of its
\* address, and the permits missing from a gate are those of the tasks holding it.
C2_QueryInsideGate ==
  /\ \A t \in Tasks : Unsettled(t) => HoldsGate(t)
  /\ \A a \in Addresses :
       sems[a] + Holders(a) = MAX_CONCURRENT_REQUESTS_PER_DNS_SERVER

\* what C3 says of entry t of the list, once the DNS classification has run
DnsClassified(t) ==
  /\ main \in {"launch", "tcp"} =>
       /\ Unresolved(r[t]) => domains[t] \in dead_domains /\ domains[t] \notin Candidates
       /\ Resolved(r[t]) => domains[t] \notin dead_domains /\ domains[t] \notin Candidates
       /\ Mixed(r[t]) => domains[t] \in Candidates /\ domains[t] \notin dead_domains
  /\ main \in {"tcp", "write", "done", "aborted"} =>
       (domains[t] \in Probed <=> Mixed(r[t]))

\* C3, as stated: after the DNS phase a domain whose vector is all unresolved is
\* dead and gets no probe, one whose vector is all resolved is alive and gets no
\* probe, one whose vector is mixed is a candidate and is not dead in phase 1.
C3_AsStated == \A t \in Tasks : DnsClassified(t)

\* C3, amended: the same, for every domain that occurs once in the list.
C3_DnsClassification == \A t \in Tasks : Once(t) => DnsClassified(t)

C3_Witness ==
  /\ main = "tcp"
  /\ \E t, u \in Tasks :
       Once(t) /\ Once(u) /\ Unresolved(r[t]) /\ Mixed(r[u]) /\ domains[u] \in Probed

\* each candidate has exactly one probe per web port
OneProbePerPort ==
  main \in {"tcp", "write", "done", "aborted"} =>
    /\ Probed = Candidates
    /\ \A d \in Probed :
         /\ DOMAIN tcp_check_futures[d] = DOMAIN WEB_PORTS
         /\ \A k \in DOMAIN WEB_PORTS : tcp_check_futures[d][k].port = WEB_PORTS[k]

HasOpenPort(d) == \E k \in DOMAIN tcp_check_futures[d] : tcp_check_futures[d][k].result
DeadByDns(d) == \E t \in Tasks : domains[t] = d /\ Unresolved(r[t])

\* C4, as stated: one probe per web port for each candidate, and after the probes
\* the candidate is in the dead set if and only if none of them returned open.
C4_AsStated ==
  /\ OneProbePerPort
  /\ main \in {"write", "done"} =>
       \A d \in Probed : d \in dead_domains <=> ~HasOpenPort(d)

\* C4, amended: one probe per web port for each candidate, and after the probes
\* the candidate is in the dead set if and only if none of them returned open or
\* another entry of the same domain had every outcome unresolved.
C4_TcpClassification ==
  /\ OneProbePerPort
  /\ main \in {"write", "done"} =>
       \A d \in Probed : d \in dead_domains <=> (~HasOpenPort(d) \/ DeadByDns(d))

C4_Witness ==
  /\ main = "write"
  /\ \E d, e \in Probed :
       /\ d \in dead_domains /\ ~HasOpenPort(d)
       /\ e \notin dead_domains /\ HasOpenPort(e)

DeadViaDns == {d \in InputDomains : DeadByDns(d)}
DeadViaTcp == {d \in Probed : ~HasOpenPort(d)}
AliveClass ==
  {d \in InputDomains : \E t \in Tasks : domains[t] = d /\ Resolved(r[t])}
    \cup {d \in Probed : HasOpenPort(d)}
ThreeClasses ==
  /\ DeadViaDns \cap DeadViaTcp = {}
  /\ DeadViaDns \cap AliveClass = {}
  /\ DeadViaTcp \cap AliveClass = {}
  /\ DeadViaDns \cup DeadViaTcp \cup AliveClass = InputDomains
  /\ dead_domains = DeadViaDns \cup DeadViaTcp

\* C5, as stated: at the end of a run the classes dead-via-DNS, dead-via-TCP and
\* alive are pairwise disjoint and cover the input domains, for every input list.
C5_AsStated == main = "done" => ThreeClasses

\* C5, amended: the same, for every input list whose domains are pairwise distinct.
C5_Partition == main = "done" /\ AllOnce => ThreeClasses

C5_Witness ==
  main = "done" /\ AllOnce /\ DeadViaDns # {} /\ DeadViaTcp # {}

\* C6: once a probe has ended with a fatal error the list file keeps its original
\* content: the run neither classifies nor rewrites.
C6_FailFast ==
  FatalSeen => list_file = original /\ main \in {"tcp", "aborted"}

C6_Witness ==
  main = "aborted" /\ dead_domains # {} /\ \E i \in DOMAIN original : original[i] = "b "

\* C7: no probe exists before every DNS check has completed, and the phase-2
\* decision and the rewrite come after every probe has completed.
C7_JoinBarriers ==
  /\ (main # "dns" \/ Probed # {}) => \A t \in Tasks : pc[t] = "done" /\ Len(r[t]) = NumGroups
  /\ main \in {"write", "done"} =>
       \A d \in Probed : \A k \in DOMAIN tcp_check_futures[d] :
         tcp_check_futures[d][k].state = "done"

C7_Witness == main = "write" /\ Cardinality(Probed) = 2

\* C8: a call of dns_resolve all of whose queries timed out has issued exactly
\* MAX_DNS_ATTEMPTS queries and returns None; no call issues more.
C8_RetryCap ==
  \A t \in Tasks :
    /\ queries[t] <= MAX_DNS_ATTEMPTS
    /\ pc[t] = "ret" /\ last[t].kind = "timeout" =>
         queries[t] = MAX_DNS_ATTEMPTS /\ ip[t] = None

C8_Witness == \E t \in Tasks : pc[t] = "ret" /\ last[t].kind = "timeout"

\* C9: after a DNS error the call has returned None: it is at its return, with no
\* further query issued, whatever number of attempts was left.
C9_ErrorEndsCall ==
  \A t \in Tasks :
    last[t].kind = "error" => pc[t] = "ret" /\ ip[t] = None /\ queries[t] <= MAX_DNS_ATTEMPTS

C9_Witness ==
  \E t \in Tasks : pc[t] = "ret" /\ last[t].kind = "error" /\ queries[t] < MAX_DNS_ATTEMPTS

\* C10: the first attempt that does not time out decides: after a response the
\* call has returned, with the host of the first record, or None for no record.
C10_FirstAnswerDecides ==
  \A t \in Tasks :
    last[t].kind = "response" =>
      /\ pc[t] = "ret" /\ queries[t] <= MAX_DNS_ATTEMPTS
      /\ Len(last[t].hosts) = 0 => ip[t] = None
      /\ Len(last[t].hosts) > 0 => ip[t] = last[t].hosts[1]

C10_Witness ==
  \E t \in Tasks :
    /\ pc[t] = "ret" /\ last[t].kind = "response" /\ queries[t] = MAX_DNS_ATTEMPTS
    /\ Len(last[t].hosts) = 2 /\ ip[t] = last[t].hosts[1]

\* C11: a probe whose connection is established returns True and has closed the
\* connection; one that is refused, times out or finds the host unreachable
\* returns False; any other OS error is raised and the probe returns no value.
C11_ProbeClassification ==
  \A d \in Probed : \A k \in DOMAIN tcp_check_futures[d] :
    LET p == tcp_check_futures[d][k] IN
      /\ p.outcome = "connected" => p.state = "done" /\ p.result /\ p.closed
      /\ p.outcome \in {"refused", "timeout", "unreachable"} =>
           p.state = "done" /\ ~p.result /\ ~p.closed
      /\ p.outcome = "oserror" => p.state = "raised" /\ ~p.result
      /\ p.outcome = "pending" <=> p.state = "pending"

C11_Witness ==
  \E d \in Probed :
    /\ tcp_check_futures[d][1].outcome = "unreachable"
    /\ tcp_check_futures[d][2].outcome = "oserror"

\* positions of the input list whose domain is not in the dead set, and the
\* position in the output that the i-th input entry takes if it is kept
KeptEntries == {i \in 1..Len(original) : rstrip(original[i]) \notin dead_domains}
OutputRank(i) == Cardinality({j \in KeptEntries : j <= i})

\* C12: on a completed run the written list is the input domain sequence
\* without the entries of the dead set: every entry outside the dead set is
\* written once per occurrence, in the input order, and nothing else is written.
C12_OutputIsInputMinusDead ==
  main = "done" =>
    /\ Len(list_file) = Cardinality(KeptEntries)
    /\ \A i \in KeptEntries : list_file[OutputRank(i)] = rstrip(original[i])

C12_Witness ==
  /\ main = "done"
  /\ Len(original) = 2
  /\ KeptEntries = {2}
  /\ list_file = <<rstrip(original[2])>>

\* task t is inside a call of dns_resolve
InCall(t) == pc[t] \in {"query", "acquire", "wait", "ret"}

\* the shuffled list names every group exactly once
IsPermutation(s) ==
  /\ DOMAIN s = Groups
  /\ \A g \in Groups : Cardinality({i \in Groups : s[i] = g}) = 1

\* the state part of C13
C13_VectorShape ==
  \A t \in Tasks :
    /\ IsPermutation(dns_servers[t])
    /\ Len(r[t]) <= NumGroups
    /\ pc[t] = "done" => Len(r[t]) = NumGroups
    /\ InCall(t) =>
         /\ Len(r[t]) < NumGroups
         /\ \E k \in 1..2 : addr[t] = DNS_SERVERS[dns_servers[t][Len(r[t]) + 1]][k]

\* the step part of C13
C13_VectorSteps ==
  \A t \in Tasks :
    /\ r'[t] # r[t] => pc[t] = "ret" /\ r'[t] = Append(r[t], ip[t])
    /\ InCall(t) /\ pc'[t] \in {"query", "acquire", "wait", "ret"} =>
         addr'[t] = addr[t] /\ dns_servers'[t] = dns_servers[t] /\ r'[t] = r[t]
    /\ pc[t] = "pick" /\ pc'[t] # "pick" => pc'[t] = "query" /\ dns_servers'[t] = dns_servers[t]

\* C13: the vector returned for a domain has one entry per group; the call made
\* for the i-th entry goes to one address, kept for the whole call, of the i-th
\* group of the domain's shuffled order, and the entry appended is what that
\* call returned.
C13_OneEntryPerGroup == []C13_VectorShape /\ [][C13_VectorSteps]_vars

C13_Witness ==
  \E t \in Tasks :
    /\ pc[t] = "ret" /\ Len(r[t]) = NumGroups - 1
    /\ dns_servers[t] # Identity
    /\ addr[t] = DNS_SERVERS[dns_servers[t][NumGroups]][2]

\* what the mocked network has shown so far: address a was asked for domain d,
\* and its answer resolves d
Asked(d, a) == dns_net[d][a] # NoOutcome
ResolvesAt(d, a) == dns_net[d][a].kind = "response" /\ Len(dns_net[d][a].hosts) > 0
\* the two addresses of a group agree on whether a domain resolves
GroupsAgree ==
  \A d \in DomainNames : \A g \in Groups :
    Asked(d, DNS_SERVERS[g][1]) /\ Asked(d, DNS_SERVERS[g][2]) =>
      (ResolvesAt(d, DNS_SERVERS[g][1]) <=> ResolvesAt(d, DNS_SERVERS[g][2]))
\* every server that resolves a domain gives the same first address
OneFirstAddress ==
  \A d \in DomainNames : \A a, b \in Addresses :
    ResolvesAt(d, a) /\ ResolvesAt(d, b) => dns_net[d][a].hosts[1] = dns_net[d][b].hosts[1]
SameDeadSetEachRun ==
  \A i \in DOMAIN previous_dead : previous_dead[i] = dead_domains

\* C14 as stated: against a deterministic network a completed run finds the
\* dead set that the earlier runs on the same list found, whatever the shuffles
\* and the choices between the two addresses of a group.
C14_AsStated == main = "done" => SameDeadSetEachRun

\* C14, amended: against a deterministic network in which the two addresses of
\* each group agree on whether a domain resolves and every resolving server gives
\* the same first address, a completed run finds the dead set that the earlier
\* runs on the same list found.
C14_Idempotence ==
  main = "done" /\ GroupsAgree /\ OneFirstAddress => SameDeadSetEachRun

C14_Witness ==
  /\ main = "done" /\ Len(previous_dead) = 1
  /\ GroupsAgree /\ OneFirstAddress
  /\ \A t \in Tasks : \A g \in Groups : \A k \in 1..2 : Asked(domains[t], DNS_SERVERS[g][k])
  /\ Probed # {}
  /\ dead_domains # {}

\* the domains written to the list, and whether a removed domain occurs twice
WrittenDomains == {list_file[i] : i \in DOMAIN list_file}
NoDeadTwice == \A t \in Tasks : domains[t] \in dead_domains => Once(t)

\* C15 as stated: the count reported by a completed run is the number of
\* entries removed, input entries minus entries written.
C15_AsStated == main = "done" => removed_count = Len(original) - Len(list_file)

\* C15, amended: the count reported by a completed run is the number of distinct
\* input domains absent from the written list; it is the number of entries
\* removed when no removed domain occurs twice in the input.
C15_CountsDomains ==
  main = "done" =>
    /\ removed_count = Cardinality(InputDomains \ WrittenDomains)
    /\ NoDeadTwice => removed_count = Len(original) - Len(list_file)

C15_Witness ==
  /\ main = "done"
  /\ ~NoDeadTwice
  /\ removed_count = 1
  /\ Len(original) - Len(list_file) = 2

\* task t is in an attempt of dns_resolve: its query is issued or about to be
InAttempt(t) == pc[t] \in {"query", "acquire", "wait"}

NothingInFlight ==
  /\ \A t \in Tasks : pc[t] \in {"start", "done"}
  /\ \A p \in Probes : tcp_check_futures[p[1]][p[2]].state # "pending"

C18_Step ==
  /\ dead_domains' # dead_domains =>
       /\ NothingInFlight
       /\ dead_domains \subseteq dead_domains'
       /\ \/ main = "dns" /\ main' = "launch" /\ \A t \in Tasks : pc[t] = "done"
          \/ main = "tcp" /\ main' = "write" /\ TcpGathered
  /\ main \in {"write", "done", "aborted"} => dead_domains' = dead_domains

\* C18: the dead set changes only in the two classification passes of the main
\* flow, each taken after its join barrier with no DNS check and no probe in
\* flight, and not at all once the second pass is over.
C18_DeadSetOnlyAfterBarriers == [][C18_Step]_vars

C18_Witness ==
  /\ main = "write"
  /\ \E d \in dead_domains : d \in Probed
  /\ \E d \in dead_domains : d \notin Candidates

\* every DNS check has returned: gather of line 119 can return
DnsBarrier == \A t \in Tasks : pc[t] = "done"
GatesFull == \A a \in Addresses : sems[a] = MAX_CONCURRENT_REQUESTS_PER_DNS_SERVER

\* C19: if the event loop keeps running what can run and every query settles or
\* times out, every DNS check of the run returns, so that the first barrier is
\* reached; and whenever all of them have returned, every gate has all its
\* permits back.
C19_DnsPhaseEnds == <>DnsBarrier /\ [](DnsBarrier => GatesFull)

C19_Witness ==
  /\ main = "dns" /\ DnsBarrier /\ GatesFull
  /\ \A t \in Tasks : Len(r[t]) = NumGroups
  /\ Len(domains) = NumLines

\* the permits missing from each gate are those of the tasks inside its block,
\* and a task is inside the block of one address, the one of its running call
C20_Accounting ==
  /\ \A a \in Addresses :
       MAX_CONCURRENT_REQUESTS_PER_DNS_SERVER - sems[a] = Holders(a)
  /\ \A t \in Tasks : HoldsGate(t) \/ pc[t] = "acquire" => InCall(t) /\ addr[t] \in Addresses
  /\ \A t \in Tasks : ~InCall(t) => addr[t] = NoAddr

\* a task turns to another address, or drops the one it had, only when it is
\* not inside a gate and has no query unsettled
C20_Step ==
  \A t \in Tasks : addr'[t] # addr[t] => ~HoldsGate(t) /\ ~Unsettled(t)

\* C20: a domain check queries its groups one after the other; at any moment it
\* holds at most one gate permit, that of the address of its running call, and
\* while it waits for a gate it holds none.
C20_OnePermitPerCheck == []C20_Accounting /\ [][C20_Step]_vars

C20_Witness ==
  \E t, u \in Tasks :
    /\ pc[t] = "acquire" /\ pc[u] = "wait"
    /\ addr[t] = addr[u]
    /\ sems[addr[t]] = 0
    /\ Len(r[t]) = NumGroups - 1

====
